---- MODULE Spec2Model ----
(***************************************************************************)
(* A model of the FLTK scroll performance test (src/src/main.cpp): the     *)
(* fake playback engine IT_Module, the Main_Window handlers that run on    *)
(* the UI thread, the timer thread Main_Window::playback_thread, and the   *)
(* cursor-follow scrolling of Piano_Roll.                                  *)
(*                                                                         *)
(* Seven specifications share the variables:                               *)
(*   Spec        the two threads, one step per shared access or           *)
(*               synchronisation operation;                                *)
(*   LiveSpec    Spec with the fairness the scheduling gives;              *)
(*   ModuleSpec  IT_Module alone, one method call per step, over the       *)
(*               whole song;                                               *)
(*   ScrollSpec  Piano_Roll alone, one method call per step;               *)
(*   NoteSpec    Piano_Timeline::set_channel over one channel, one note    *)
(*               per step, then calc_sizes;                                *)
(*   MapSpec     the same over a channel of rests and one note of any      *)
(*               pitch and octave;                                         *)
(*   SongSpec    the handlers and the timer thread's loop passes as single *)
(*               steps, over the whole song.                               *)
(***************************************************************************)
EXTENDS Integers, FiniteSets, Sequences, TLC

(* ------------------------- program constants -------------------------- *)

WHITE_KEY_WIDTH == 150

TICK_WIDTH == 3

TICKS_PER_STEP == 12

\* IT_Module::play wraps at this tick; Piano_Roll::set_timeline sets the same
\* number as _song_length.
SONG_LENGTH == 3072

\* build_note_view stops adding notes once tick >= 3072 - 16.
NOTE_END_MARGIN == 16

\* Fl::scrollbar_size(), the width of Piano_Roll's vertical scrollbar.
SCROLLBAR_SIZE == 16

\* _speed_slider->bounds(1.0, 10.0)
SPEED_MIN == 1

SPEED_MAX == 10

\* new Main_Window(48, 48, 800, 600)
INITIAL_WIDTH == 800

\* Pitch::REST, the first enumerator; C_NAT .. B_NAT are 1 .. 12.
REST == 0

NUM_WHITE_NOTES == 7

NUM_BLACK_NOTES == 5

NUM_NOTES_PER_OCTAVE == NUM_WHITE_NOTES + NUM_BLACK_NOTES

NUM_OCTAVES == 8

WHITE_KEY_HEIGHT == 24

MENU_BAR_HEIGHT == 21

\* build_note_view draws speed and length as rand() % 4 + 1.
NOTE_FACTOR_MAX == 4

(* ------------------------------ bounds -------------------------------- *)

\* Spec: the timer thread's try_lock succeeds only while the module tick is
\* below MaxTick (std::mutex::try_lock may fail spuriously, so a refusal is a
\* behaviour of the code).
MaxTick == 12

\* Spec: the speed slider delivers values SPEED_MIN..MaxSliderSpeed.
MaxSliderSpeed == 2

\* NoteSpec, MapSpec: set_channel is given at most MaxNotes notes.
MaxNotes == 3

(* ----------------------------- variables ------------------------------ *)

VARIABLES
    it_playing,       \* IT_Module::_playing
    it_paused,        \* IT_Module::_paused
    it_speed,         \* IT_Module::_speed
    it_current_tick,  \* IT_Module::_current_tick
    mw_tick,          \* Main_Window::_tick
    sync_requested,   \* Main_Window::_sync_requested
    joinable,         \* Main_Window::_audio_thread.joinable()
    mutex,            \* owner of Main_Window::_audio_mutex: "none", "ui", "timer"
    kill_set,         \* _audio_kill_signal has had set_value() called
    awake_pending,    \* sync_cb handlers queued by Fl::awake and not yet run
    n_threads,        \* playback_thread instances that have not returned
    t_pc,             \* position of the timer thread
    t_tick,           \* playback_thread's local tick
    ui_op,            \* the handler the UI thread is in
    ui_pc,            \* position of the UI thread in it
    ui_arg,           \* the speed slider's value in speed_slider_cb
    pr_tick,          \* Piano_Roll::_tick
    pr_following,     \* Piano_Roll::_following
    pr_paused,        \* Piano_Roll::_paused
    pr_continuous,    \* Piano_Roll::_continuous
    xposition,        \* Fl_Scroll::xposition() of the Piano_Roll
    pr_w,             \* Piano_Roll::w()
    timeline_w,       \* _piano_timeline.w()
    last_note_tick,   \* tick of the last Note_Box over the four channels
    sc_pc,            \* Piano_Timeline::set_channel: "loop" or "returned"
    sc_notes,         \* the notes of the channel its loop has taken
    sc_tick,          \* its local tick
    sc_boxes          \* the Note_Box children it has created, in order

it_vars == <<it_playing, it_paused, it_speed, it_current_tick>>

mw_vars == <<mw_tick, sync_requested, joinable, mutex, kill_set, awake_pending, n_threads>>

t_vars == <<t_pc, t_tick>>

ui_vars == <<ui_op, ui_pc, ui_arg>>

note_vars == <<sc_pc, sc_notes, sc_tick, sc_boxes>>

pr_vars == <<pr_tick, pr_following, pr_paused, pr_continuous, xposition, pr_w, timeline_w, last_note_tick, note_vars>>

vars == <<it_vars, mw_vars, t_vars, ui_vars, pr_vars>>

(* ------------------------------ helpers ------------------------------- *)

Max(a, b) == IF a >= b THEN a ELSE b

Min(a, b) == IF a <= b THEN a ELSE b

\* C++ integer division truncates toward zero.
CDiv(a, b) == IF a >= 0 THEN a \div b ELSE -((-a) \div b)

(* ------------------------------ IT_Module ----------------------------- *)

stopped == ~it_playing /\ ~it_paused


\* PlayTick with the wrap tested by > instead of >=.
PlayTickWrapsLate(tick, speed) == IF tick + speed > SONG_LENGTH THEN 0 ELSE tick + speed

\* The tick IT_Module::play leaves in _current_tick.
PlayTick(tick, speed) == IF tick + speed >= SONG_LENGTH THEN 0 ELSE tick + speed


\* ItStart without _paused = false.
ItStartKeepsPaused ==
    /\ it_playing' = TRUE
    /\ UNCHANGED <<it_paused, it_speed, it_current_tick>>

\* IT_Module::start
ItStart ==
    /\ it_paused' = FALSE
    /\ it_playing' = TRUE
    /\ UNCHANGED <<it_speed, it_current_tick>>

\* IT_Module::stop
ItStop ==
    /\ it_paused' = FALSE
    /\ it_playing' = FALSE
    /\ it_current_tick' = 0
    /\ UNCHANGED it_speed

\* IT_Module::pause
ItPause ==
    /\ it_paused' = TRUE
    /\ it_playing' = FALSE
    /\ UNCHANGED <<it_speed, it_current_tick>>

\* IT_Module::play
ItPlay ==
    /\ it_current_tick' = IF it_playing THEN PlayTick(it_current_tick, it_speed) ELSE it_current_tick
    /\ UNCHANGED <<it_playing, it_paused, it_speed>>

(* ------------------------------ Piano_Roll ---------------------------- *)

\* x_pos of Piano_Roll::focus_cursor: the step-snapped cursor position.
CursorX(tick) == (CDiv(tick, TICKS_PER_STEP) * TICKS_PER_STEP) * TICK_WIDTH

\* Piano_Roll::get_last_note_x: x of the last note box relative to the timeline.
LastNoteX(last) == WHITE_KEY_WIDTH + last * TICK_WIDTH

\* Piano_Roll::set_timeline_width: the timeline's width for a Piano_Roll of width W.
TimelineWidth(W, last) ==
    LET base == Max(WHITE_KEY_WIDTH + SONG_LENGTH * TICK_WIDTH, W - SCROLLBAR_SIZE)
        width == LastNoteX(last) + W - SCROLLBAR_SIZE - WHITE_KEY_WIDTH
    IN  IF width > base THEN width ELSE base

\* Piano_Roll::scroll_x_max
ScrollXMax(tw, W) == tw - (W - SCROLLBAR_SIZE)


\* FocusCursor scrolling on every call, whatever the mode and the margin.
FocusCursorAlways(tick, following, continuous, X, W, tw, center) ==
    LET x_pos == (CDiv(tick, TICKS_PER_STEP) * TICKS_PER_STEP) * TICK_WIDTH
        scroll_pos == IF center THEN x_pos + WHITE_KEY_WIDTH - CDiv(W, 2) ELSE x_pos
    IN  Min(Max(scroll_pos, 0), tw - (W - SCROLLBAR_SIZE))

\* FocusCursor taking its centring branch whatever the argument.
FocusCursorCentred(tick, following, continuous, X, W, tw, center) ==
    LET x_pos == (CDiv(tick, TICKS_PER_STEP) * TICKS_PER_STEP) * TICK_WIDTH
    IN  IF (following /\ continuous) \/ x_pos > X + W - WHITE_KEY_WIDTH * 2 \/ x_pos < X
        THEN Min(Max(x_pos + WHITE_KEY_WIDTH - CDiv(W, 2), 0), tw - (W - SCROLLBAR_SIZE))
        ELSE X

\* FocusCursor without the test of the right margin.
FocusCursorNoRightMargin(tick, following, continuous, X, W, tw, center) ==
    LET x_pos == (CDiv(tick, TICKS_PER_STEP) * TICKS_PER_STEP) * TICK_WIDTH
    IN  IF (following /\ continuous) \/ x_pos < X
        THEN Min(Max(x_pos, 0), tw - (W - SCROLLBAR_SIZE))
        ELSE X

\* FocusCursor without the clamp to scroll_x_max().
FocusCursorUnclamped(tick, following, continuous, X, W, tw, center) ==
    LET x_pos == (CDiv(tick, TICKS_PER_STEP) * TICKS_PER_STEP) * TICK_WIDTH
    IN  IF (following /\ continuous) \/ x_pos > X + W - WHITE_KEY_WIDTH * 2 \/ x_pos < X
        THEN Max(x_pos, 0)
        ELSE X

\* The scroll position Piano_Roll::focus_cursor(center) leaves, from position X.
FocusCursor(tick, following, continuous, X, W, tw, center) ==
    LET x_pos == CursorX(tick)
    IN  IF (following /\ continuous) \/ x_pos > X + W - WHITE_KEY_WIDTH * 2 \/ x_pos < X
        THEN LET scroll_pos == IF center THEN x_pos + WHITE_KEY_WIDTH - CDiv(W, 2) ELSE x_pos
             IN  Min(Max(scroll_pos, 0), ScrollXMax(tw, W))
        ELSE X

\* Piano_Roll::highlight_tick(t)
HighlightTick(t) ==
    /\ pr_tick' = t
    /\ xposition' = IF pr_tick = t THEN xposition
                    ELSE FocusCursor(t, pr_following, pr_continuous, xposition, pr_w, timeline_w, FALSE)
    /\ UNCHANGED <<pr_following, pr_paused, pr_continuous, pr_w, timeline_w, last_note_tick, note_vars>>

\* Piano_Roll::start_following
StartFollowing ==
    /\ pr_following' = TRUE
    /\ pr_paused' = FALSE
    /\ xposition' = IF pr_tick = -1 THEN 0 ELSE xposition
    /\ UNCHANGED <<pr_tick, pr_continuous, pr_w, timeline_w, last_note_tick, note_vars>>

\* Piano_Roll::unpause_following
UnpauseFollowing ==
    /\ pr_following' = TRUE
    /\ pr_paused' = FALSE
    /\ UNCHANGED <<pr_tick, pr_continuous, xposition, pr_w, timeline_w, last_note_tick, note_vars>>

\* Piano_Roll::stop_following
StopFollowing ==
    /\ pr_following' = FALSE
    /\ pr_paused' = FALSE
    /\ pr_tick' = -1
    /\ UNCHANGED <<pr_continuous, xposition, pr_w, timeline_w, last_note_tick, note_vars>>

\* Piano_Roll::pause_following
PauseFollowing ==
    /\ pr_following' = FALSE
    /\ pr_paused' = TRUE
    /\ UNCHANGED <<pr_tick, pr_continuous, xposition, pr_w, timeline_w, last_note_tick, note_vars>>

(* -------------------------------- Init -------------------------------- *)

\* build_note_view: the last note of a channel starts at a tick t with
\* t < 3072 - 16 <= t + length * speed and length * speed <= 16.
LastNoteTicks == {SONG_LENGTH - 2 * NOTE_END_MARGIN, SONG_LENGTH - NOTE_END_MARGIN - 1}

\* The state after Main_Window's constructor, the note boxes apart.
MainInit ==
    /\ it_playing = FALSE
    /\ it_paused = FALSE
    /\ it_speed = 1
    /\ it_current_tick = 0
    /\ mw_tick = -1
    /\ sync_requested = FALSE
    /\ joinable = FALSE
    /\ mutex = "none"
    /\ kill_set = FALSE
    /\ awake_pending = 0
    /\ n_threads = 0
    /\ t_pc = "none"
    /\ t_tick = -1
    /\ ui_op = "none"
    /\ ui_pc = "idle"
    /\ ui_arg = 0
    /\ pr_tick = -1
    /\ pr_following = FALSE
    /\ pr_paused = FALSE
    /\ pr_continuous = TRUE
    /\ xposition = 0
    /\ pr_w = INITIAL_WIDTH
    /\ last_note_tick \in LastNoteTicks
    /\ timeline_w = TimelineWidth(INITIAL_WIDTH, last_note_tick)

\* The state after Main_Window's constructor. The specifications of the
\* running program carry the note boxes only as last_note_tick.
Init ==
    /\ MainInit
    /\ sc_pc = "returned"
    /\ sc_notes = <<>>
    /\ sc_tick = 0
    /\ sc_boxes = <<>>

(* --------------------- Main_Window::playback_thread ------------------- *)


\* T_WaitFor never seeing the promise set.
T_WaitForIgnoresKill ==
    /\ t_pc = "wait"
    /\ t_pc' = "try"
    /\ UNCHANGED <<it_vars, mw_vars, t_tick, ui_vars, pr_vars>>

\* kill_signal.wait_for(8ms): ready once the promise is set, a timeout otherwise.
T_WaitFor ==
    /\ t_pc = "wait"
    /\ IF kill_set
       THEN t_pc' = "done" /\ n_threads' = n_threads - 1
       ELSE t_pc' = "try" /\ UNCHANGED n_threads
    /\ UNCHANGED <<it_vars, mw_tick, sync_requested, joinable, mutex, kill_set, awake_pending>>
    /\ UNCHANGED <<t_tick, ui_vars, pr_vars>>

\* _audio_mutex.try_lock() returns true.
T_TryLockOk ==
    /\ t_pc = "try"
    /\ mutex = "none"
    /\ it_current_tick < MaxTick
    /\ mutex' = "timer"
    /\ t_pc' = "cs_play"
    /\ UNCHANGED <<it_vars, mw_tick, sync_requested, joinable, kill_set, awake_pending, n_threads>>
    /\ UNCHANGED <<t_tick, ui_vars, pr_vars>>


\* A blocking lock in place of try_lock: there is no failure to return from.
T_LockBlocks ==
    /\ t_pc = "try"
    /\ FALSE
    /\ UNCHANGED vars

\* _audio_mutex.try_lock() returns false: the mutex is held, or the failure is
\* spurious; the loop goes back to wait_for.
T_TryLockFail ==
    /\ t_pc = "try"
    /\ t_pc' = "wait"
    /\ UNCHANGED <<it_vars, mw_vars, t_tick, ui_vars, pr_vars>>

\* Holding the mutex: mod->playing(), mod->play(), t = mod->current_tick(),
\* tick = t, mw->_tick = t. With the module not playing: the whole else branch,
\* which publishes -1, requests a sync, unlocks and leaves the loop.
T_Play ==
    /\ t_pc = "cs_play"
    /\ IF it_playing
       THEN /\ ItPlay
            /\ IF t_tick # it_current_tick'
               THEN t_tick' = it_current_tick' /\ mw_tick' = it_current_tick' /\ t_pc' = "cs_awake"
               ELSE UNCHANGED <<t_tick, mw_tick>> /\ t_pc' = "unlock"
            /\ UNCHANGED <<sync_requested, awake_pending, mutex, n_threads>>
       ELSE /\ UNCHANGED <<it_vars, t_tick>>
            /\ mw_tick' = -1
            /\ awake_pending' = IF sync_requested THEN awake_pending ELSE awake_pending + 1
            /\ sync_requested' = TRUE
            /\ mutex' = "none"
            /\ t_pc' = "done"
            /\ n_threads' = n_threads - 1
    /\ UNCHANGED <<joinable, kill_set, ui_vars, pr_vars>>


\* T_Awake queuing a wakeup without testing _sync_requested.
T_AwakeUnguarded ==
    /\ t_pc = "cs_awake"
    /\ t_pc' = "cs_flag"
    /\ awake_pending' = awake_pending + 1
    /\ UNCHANGED <<it_vars, mw_tick, sync_requested, joinable, mutex, kill_set, n_threads>>
    /\ UNCHANGED <<t_tick, ui_vars, pr_vars>>

\* if (!mw->_sync_requested) Fl::awake(sync_cb, mw);
T_Awake ==
    /\ t_pc = "cs_awake"
    /\ IF sync_requested
       THEN t_pc' = "unlock" /\ UNCHANGED awake_pending
       ELSE t_pc' = "cs_flag" /\ awake_pending' = awake_pending + 1
    /\ UNCHANGED <<it_vars, mw_tick, sync_requested, joinable, mutex, kill_set, n_threads>>
    /\ UNCHANGED <<t_tick, ui_vars, pr_vars>>

\* mw->_sync_requested = true;
T_SetFlag ==
    /\ t_pc = "cs_flag"
    /\ sync_requested' = TRUE
    /\ t_pc' = "unlock"
    /\ UNCHANGED <<it_vars, mw_tick, joinable, mutex, kill_set, awake_pending, n_threads>>
    /\ UNCHANGED <<t_tick, ui_vars, pr_vars>>

\* mw->_audio_mutex.unlock(); the loop goes back to wait_for.
T_Unlock ==
    /\ t_pc = "unlock"
    /\ mutex' = "none"
    /\ t_pc' = "wait"
    /\ UNCHANGED <<it_vars, mw_tick, sync_requested, joinable, kill_set, awake_pending, n_threads>>
    /\ UNCHANGED <<t_tick, ui_vars, pr_vars>>

TimerStep == T_WaitFor \/ T_TryLockOk \/ T_TryLockFail \/ T_Play \/ T_Awake \/ T_SetFlag \/ T_Unlock

(* ------------------------ UI thread: the handlers --------------------- *)

\* Where a handler that starts with stop_audio_thread() begins: at the lock
\* when the thread is joinable, past the call otherwise.
AfterStopAudioThread(op) == IF op = "destroy" THEN "destroyed" ELSE "body"


\* A handler that does not call stop_audio_thread() first.
EnterWithoutStop(op) == AfterStopAudioThread(op)

\* stop_audio_thread without its joinable() test.
EnterAlwaysStops(op) == "stop_lock"

EnterStopAudioThread(op) == IF joinable THEN "stop_lock" ELSE AfterStopAudioThread(op)

\* play_pause_cb: toggle_playback() is entered.
UI_PlayPause ==
    /\ ui_pc = "idle"
    /\ ui_op' = "toggle"
    /\ ui_pc' = EnterStopAudioThread("toggle")
    /\ UNCHANGED <<it_vars, mw_vars, t_vars, ui_arg, pr_vars>>

\* stop_cb: stop_playback() is entered.
UI_Stop ==
    /\ ui_pc = "idle"
    /\ ui_op' = "stop"
    /\ ui_pc' = EnterStopAudioThread("stop")
    /\ UNCHANGED <<it_vars, mw_vars, t_vars, ui_arg, pr_vars>>

\* ~Main_Window is entered.
UI_Destroy ==
    /\ ui_pc = "idle"
    /\ ui_op' = "destroy"
    /\ ui_pc' = EnterStopAudioThread("destroy")
    /\ UNCHANGED <<it_vars, mw_vars, t_vars, ui_arg, pr_vars>>

\* speed_slider_cb is entered with the slider at s.
UI_SpeedSlider(s) ==
    /\ ui_pc = "idle"
    /\ ui_op' = "speed"
    /\ ui_pc' = "speed_read"
    /\ ui_arg' = s
    /\ UNCHANGED <<it_vars, mw_vars, t_vars, pr_vars>>

\* The event loop runs a queued awake handler: sync_cb is entered.
UI_AwakeHandler ==
    /\ ui_pc = "idle"
    /\ awake_pending > 0
    /\ awake_pending' = awake_pending - 1
    /\ ui_op' = "sync"
    /\ ui_pc' = "sync_lock"
    /\ UNCHANGED <<it_vars, mw_tick, sync_requested, joinable, mutex, kill_set, n_threads>>
    /\ UNCHANGED <<t_vars, ui_arg, pr_vars>>

(* stop_audio_thread *)

\* _audio_mutex.lock()
SAT_Lock ==
    /\ ui_pc = "stop_lock"
    /\ mutex = "none"
    /\ mutex' = "ui"
    /\ ui_pc' = "stop_signal"
    /\ UNCHANGED <<it_vars, mw_tick, sync_requested, joinable, kill_set, awake_pending, n_threads>>
    /\ UNCHANGED <<t_vars, ui_op, ui_arg, pr_vars>>

\* _audio_kill_signal.set_value(): a second set_value on one promise throws.
SAT_SetValue ==
    /\ ui_pc = "stop_signal"
    /\ kill_set' = TRUE
    /\ ui_pc' = IF kill_set THEN "terminated" ELSE "stop_join"
    /\ UNCHANGED <<it_vars, mw_tick, sync_requested, joinable, mutex, awake_pending, n_threads>>
    /\ UNCHANGED <<t_vars, ui_op, ui_arg, pr_vars>>

\* _audio_thread.join() returns once playback_thread has returned.
SAT_Join ==
    /\ ui_pc = "stop_join"
    /\ t_pc = "done"
    /\ t_pc' = "none"
    /\ joinable' = FALSE
    /\ ui_pc' = "stop_unlock"
    /\ UNCHANGED <<it_vars, mw_tick, sync_requested, mutex, kill_set, awake_pending, n_threads>>
    /\ UNCHANGED <<t_tick, ui_op, ui_arg, pr_vars>>

\* _audio_mutex.unlock(); stop_audio_thread returns.
SAT_Unlock ==
    /\ ui_pc = "stop_unlock"
    /\ mutex' = "none"
    /\ ui_pc' = AfterStopAudioThread(ui_op)
    /\ UNCHANGED <<it_vars, mw_tick, sync_requested, joinable, kill_set, awake_pending, n_threads>>
    /\ UNCHANGED <<t_vars, ui_op, ui_arg, pr_vars>>

(* toggle_playback, stop_playback *)

\* UI_ToggleBody resuming from pause without start_audio_thread().
UI_ToggleBodyNoRestart ==
    /\ ui_op = "toggle"
    /\ ui_pc = "body"
    /\ IF stopped
       THEN ItStart /\ StartFollowing /\ ui_pc' = "spawn"
       ELSE IF it_paused
            THEN ItStart /\ UnpauseFollowing /\ ui_pc' = "uac"
            ELSE ItPause /\ PauseFollowing /\ ui_pc' = "uac"
    /\ UNCHANGED <<mw_vars, t_vars, ui_op, ui_arg>>

\* toggle_playback after stop_audio_thread(): one of its three branches, up to
\* start_audio_thread() or update_active_controls().
UI_ToggleBody ==
    /\ ui_op = "toggle"
    /\ ui_pc = "body"
    /\ IF stopped
       THEN ItStart /\ StartFollowing /\ ui_pc' = "spawn"
       ELSE IF it_paused
            THEN ItStart /\ UnpauseFollowing /\ ui_pc' = "spawn"
            ELSE ItPause /\ PauseFollowing /\ ui_pc' = "uac"
    /\ UNCHANGED <<mw_vars, t_vars, ui_op, ui_arg>>

\* UI_StopBody without _tick = -1.
UI_StopBodyKeepsTick ==
    /\ ui_op = "stop"
    /\ ui_pc = "body"
    /\ IF ~stopped
       THEN /\ ItStop
            /\ StopFollowing
            /\ ui_pc' = "uac"
            /\ UNCHANGED <<ui_op, mw_tick>>
       ELSE /\ ui_pc' = "idle"
            /\ ui_op' = "none"
            /\ UNCHANGED <<it_vars, mw_tick, pr_vars>>
    /\ UNCHANGED <<sync_requested, joinable, mutex, kill_set, awake_pending, n_threads>>
    /\ UNCHANGED <<t_vars, ui_arg>>

\* stop_playback after stop_audio_thread().
UI_StopBody ==
    /\ ui_op = "stop"
    /\ ui_pc = "body"
    /\ IF ~stopped
       THEN /\ ItStop
            /\ mw_tick' = -1
            /\ StopFollowing
            /\ ui_pc' = "uac"
            /\ UNCHANGED ui_op
       ELSE /\ ui_pc' = "idle"
            /\ ui_op' = "none"
            /\ UNCHANGED <<it_vars, mw_tick, pr_vars>>
    /\ UNCHANGED <<sync_requested, joinable, mutex, kill_set, awake_pending, n_threads>>
    /\ UNCHANGED <<t_vars, ui_arg>>

\* start_audio_thread: a fresh promise, its future handed to a new thread, the
\* thread move-assigned to _audio_thread (std::terminate if that is joinable).
UI_StartAudioThread ==
    /\ ui_pc = "spawn"
    /\ kill_set' = FALSE
    /\ n_threads' = n_threads + 1
    /\ IF joinable
       THEN ui_pc' = "terminated" /\ UNCHANGED <<joinable, t_vars>>
       ELSE ui_pc' = "uac" /\ joinable' = TRUE /\ t_pc' = "wait" /\ t_tick' = -1
    /\ UNCHANGED <<it_vars, mw_tick, sync_requested, mutex, awake_pending>>
    /\ UNCHANGED <<ui_op, ui_arg, pr_vars>>

\* update_active_controls reads stopped(); the handler returns.
UI_UpdateActiveControls ==
    /\ ui_pc = "uac"
    /\ ui_pc' = "idle"
    /\ ui_op' = "none"
    /\ UNCHANGED <<it_vars, mw_vars, t_vars, ui_arg, pr_vars>>

(* speed_slider_cb *)


\* speed_slider_cb writing the speed without taking the mutex.
UI_SpeedReadNoLock ==
    /\ ui_pc = "speed_read"
    /\ IF ui_arg # it_speed
       THEN ui_pc' = "speed_write" /\ UNCHANGED <<ui_op, ui_arg>>
       ELSE ui_pc' = "idle" /\ ui_op' = "none" /\ ui_arg' = 0
    /\ UNCHANGED <<it_vars, mw_vars, t_vars, pr_vars>>

\* if (speed != mw->_it_module.speed())
UI_SpeedRead ==
    /\ ui_pc = "speed_read"
    /\ IF ui_arg # it_speed
       THEN ui_pc' = "speed_lock" /\ UNCHANGED <<ui_op, ui_arg>>
       ELSE ui_pc' = "idle" /\ ui_op' = "none" /\ ui_arg' = 0
    /\ UNCHANGED <<it_vars, mw_vars, t_vars, pr_vars>>

\* mw->_audio_mutex.lock()
UI_SpeedLock ==
    /\ ui_pc = "speed_lock"
    /\ mutex = "none"
    /\ mutex' = "ui"
    /\ ui_pc' = "speed_write"
    /\ UNCHANGED <<it_vars, mw_tick, sync_requested, joinable, kill_set, awake_pending, n_threads>>
    /\ UNCHANGED <<t_vars, ui_op, ui_arg, pr_vars>>

\* mw->_it_module.speed(speed)
UI_SpeedWrite ==
    /\ ui_pc = "speed_write"
    /\ it_speed' = ui_arg
    /\ ui_pc' = "speed_unlock"
    /\ UNCHANGED <<it_playing, it_paused, it_current_tick, mw_vars, t_vars, ui_op, ui_arg, pr_vars>>

\* mw->_audio_mutex.unlock(); the handler returns.
UI_SpeedUnlock ==
    /\ ui_pc = "speed_unlock"
    /\ mutex' = "none"
    /\ ui_pc' = "idle"
    /\ ui_op' = "none"
    /\ ui_arg' = 0
    /\ UNCHANGED <<it_vars, mw_tick, sync_requested, joinable, kill_set, awake_pending, n_threads>>
    /\ UNCHANGED <<t_vars, pr_vars>>

(* sync_cb *)

\* mw->_audio_mutex.lock()
UI_SyncLock ==
    /\ ui_pc = "sync_lock"
    /\ mutex = "none"
    /\ mutex' = "ui"
    /\ ui_pc' = "sync_body"
    /\ UNCHANGED <<it_vars, mw_tick, sync_requested, joinable, kill_set, awake_pending, n_threads>>
    /\ UNCHANGED <<t_vars, ui_op, ui_arg, pr_vars>>


\* sync_cb without _sync_requested = false.
UI_SyncBodyKeepsFlag ==
    /\ ui_pc = "sync_body"
    /\ IF it_playing /\ mw_tick > 0
       THEN HighlightTick(mw_tick) /\ UNCHANGED mw_tick
       ELSE IF stopped
            THEN mw_tick' = -1 /\ StopFollowing
            ELSE UNCHANGED <<mw_tick, pr_vars>>
    /\ ui_pc' = "sync_unlock"
    /\ UNCHANGED <<it_vars, sync_requested, joinable, mutex, kill_set, awake_pending, n_threads>>
    /\ UNCHANGED <<t_vars, ui_op, ui_arg>>

\* The body of sync_cb under the mutex, down to _sync_requested = false.
UI_SyncBody ==
    /\ ui_pc = "sync_body"
    /\ IF it_playing /\ mw_tick > 0
       THEN HighlightTick(mw_tick) /\ UNCHANGED mw_tick
       ELSE IF stopped
            THEN mw_tick' = -1 /\ StopFollowing
            ELSE UNCHANGED <<mw_tick, pr_vars>>
    /\ sync_requested' = FALSE
    /\ ui_pc' = "sync_unlock"
    /\ UNCHANGED <<it_vars, joinable, mutex, kill_set, awake_pending, n_threads>>
    /\ UNCHANGED <<t_vars, ui_op, ui_arg>>

\* mw->_audio_mutex.unlock(); the handler returns.
UI_SyncUnlock ==
    /\ ui_pc = "sync_unlock"
    /\ mutex' = "none"
    /\ ui_pc' = "idle"
    /\ ui_op' = "none"
    /\ UNCHANGED <<it_vars, mw_tick, sync_requested, joinable, kill_set, awake_pending, n_threads>>
    /\ UNCHANGED <<t_vars, ui_arg, pr_vars>>

\* The UI thread's blocking lock operations.
UILockStep == SAT_Lock \/ UI_SpeedLock \/ UI_SyncLock

\* The steps inside a handler that never block.
UIHandlerStep ==
    \/ SAT_SetValue \/ SAT_Join \/ SAT_Unlock
    \/ UI_ToggleBody \/ UI_StopBody \/ UI_StartAudioThread \/ UI_UpdateActiveControls
    \/ UI_SpeedRead \/ UI_SpeedWrite \/ UI_SpeedUnlock
    \/ UI_SyncBody \/ UI_SyncUnlock

\* The events the event loop may deliver.
UIEvent ==
    \/ UI_PlayPause \/ UI_Stop \/ UI_Destroy
    \/ \E s \in SPEED_MIN..MaxSliderSpeed : UI_SpeedSlider(s)

Next == TimerStep \/ UIEvent \/ UI_AwakeHandler \/ UILockStep \/ UIHandlerStep

Spec == Init /\ [][Next]_vars

(* ---------------- LiveSpec: the threads under fair scheduling ---------- *)

\* Both threads are scheduled (WF on the steps that never block). A blocking
\* lock is granted when the mutex is free again and again (SF: the timer
\* thread holds it for a few assignments and then sleeps 8 ms in wait_for
\* before its next try_lock). The event loop runs a queued awake handler when
\* it comes back to idle again and again (SF: Fl::wait runs the queued
\* handlers on every turn of the loop).
LiveSpec ==
    /\ Spec
    /\ WF_vars(TimerStep)
    /\ WF_vars(UIHandlerStep)
    /\ SF_vars(UILockStep)
    /\ SF_vars(UI_AwakeHandler)

(* ---------------- ModuleSpec: IT_Module, one call per step ------------- *)

\* _it_module.start() as toggle_playback calls it: the module is stopped or paused.
M_Start ==
    /\ ~it_playing
    /\ ItStart
    /\ UNCHANGED <<mw_vars, t_vars, ui_vars, pr_vars>>

\* _it_module.pause() as toggle_playback calls it: the module is playing.
M_Pause ==
    /\ it_playing
    /\ ItPause
    /\ UNCHANGED <<mw_vars, t_vars, ui_vars, pr_vars>>

\* _it_module.stop() as stop_playback calls it: the module is not stopped.
M_Stop ==
    /\ ~stopped
    /\ ItStop
    /\ UNCHANGED <<mw_vars, t_vars, ui_vars, pr_vars>>

\* mod->play() as playback_thread calls it: mod->playing() holds.
M_Play ==
    /\ it_playing
    /\ ItPlay
    /\ UNCHANGED <<mw_vars, t_vars, ui_vars, pr_vars>>

\* _it_module.speed(s) as speed_slider_cb calls it: s differs from speed().
M_Speed(s) ==
    /\ s # it_speed
    /\ it_speed' = s
    /\ UNCHANGED <<it_playing, it_paused, it_current_tick, mw_vars, t_vars, ui_vars, pr_vars>>

ModuleNext == M_Start \/ M_Pause \/ M_Stop \/ M_Play \/ \E s \in SPEED_MIN..SPEED_MAX : M_Speed(s)

ModuleSpec == Init /\ [][ModuleNext]_vars

(* ---------------- ScrollSpec: Piano_Roll, one call per step ------------ *)

\* Ticks sync_cb hands to highlight_tick: four in every eight steps of the
\* song, the first step boundary, and the ticks around the last notes.
TickSamples ==
    ({k * (8 * TICKS_PER_STEP) + r : k \in 0..31, r \in {0, 1, 47, 95}} \ {0})
        \cup {11, 12, 13, 3039, 3040, 3055, 3060, 3071}

\* Widths of the window: the least size_range allows, the initial one, a wide one.
WidthSamples == {WHITE_KEY_WIDTH * 3 + SCROLLBAR_SIZE, INITIAL_WIDTH, 2 * INITIAL_WIDTH}

\* Values of the horizontal scrollbar.
ScrollSamples == {0, 36, 450, ScrollXMax(timeline_w, pr_w)}

\* _piano_roll->start_following() as toggle_playback calls it, from stopped.
P_StartFollowing ==
    /\ ~pr_following /\ ~pr_paused
    /\ StartFollowing
    /\ UNCHANGED <<it_vars, mw_vars, t_vars, ui_vars>>

\* _piano_roll->unpause_following() as toggle_playback calls it, from paused.
P_UnpauseFollowing ==
    /\ pr_paused
    /\ UnpauseFollowing
    /\ UNCHANGED <<it_vars, mw_vars, t_vars, ui_vars>>

\* _piano_roll->pause_following() as toggle_playback calls it, from playing.
P_PauseFollowing ==
    /\ pr_following
    /\ PauseFollowing
    /\ UNCHANGED <<it_vars, mw_vars, t_vars, ui_vars>>

\* _piano_roll->stop_following() as stop_playback calls it, from not stopped.
P_StopFollowing ==
    /\ pr_following \/ pr_paused
    /\ StopFollowing
    /\ UNCHANGED <<it_vars, mw_vars, t_vars, ui_vars>>

\* _piano_roll->highlight_tick(t) as sync_cb calls it: playing, with a tick > 0.
P_HighlightTick(t) ==
    /\ pr_following
    /\ HighlightTick(t)
    /\ UNCHANGED <<it_vars, mw_vars, t_vars, ui_vars>>

\* continuous_cb: set_continuous_scroll(c), the menu item toggled.
P_SetContinuous ==
    /\ pr_continuous' = ~pr_continuous
    /\ UNCHANGED <<pr_tick, pr_following, pr_paused, xposition, pr_w, timeline_w, last_note_tick, note_vars>>
    /\ UNCHANGED <<it_vars, mw_vars, t_vars, ui_vars>>

\* Piano_Roll::set_size(W, H) with a new width.
P_SetSize(W) ==
    /\ W # pr_w
    /\ pr_w' = W
    /\ timeline_w' = TimelineWidth(W, last_note_tick)
    /\ xposition' = IF xposition > ScrollXMax(timeline_w', W) THEN ScrollXMax(timeline_w', W) ELSE xposition
    /\ UNCHANGED <<pr_tick, pr_following, pr_paused, pr_continuous, last_note_tick, note_vars>>
    /\ UNCHANGED <<it_vars, mw_vars, t_vars, ui_vars>>

\* Piano_Roll::hscrollbar_cb with the scrollbar at v.
P_HScrollbar(v) ==
    /\ LET X == Min(v, ScrollXMax(timeline_w, pr_w))
       IN  xposition' = IF pr_following
                        THEN FocusCursor(pr_tick, pr_following, pr_continuous, X, pr_w, timeline_w, FALSE)
                        ELSE X
    /\ UNCHANGED <<pr_tick, pr_following, pr_paused, pr_continuous, pr_w, timeline_w, last_note_tick, note_vars>>
    /\ UNCHANGED <<it_vars, mw_vars, t_vars, ui_vars>>

ScrollNext ==
    \/ P_StartFollowing \/ P_UnpauseFollowing \/ P_PauseFollowing \/ P_StopFollowing
    \/ \E t \in TickSamples : P_HighlightTick(t)
    \/ P_SetContinuous
    \/ \E W \in WidthSamples : P_SetSize(W)
    \/ \E v \in ScrollSamples : P_HScrollbar(v)

ScrollSpec == Init /\ [][ScrollNext]_vars

(* ------------- NoteSpec, MapSpec: the note boxes of a channel --------- *)

\* Piano_Roll::octave_height
OctaveHeight == WHITE_KEY_HEIGHT * NUM_WHITE_NOTES

\* Piano_Roll::note_row_height
NoteRowHeight == CDiv(OctaveHeight, NUM_NOTES_PER_OCTAVE)

\* Piano_Timeline::x(): Fl_Scroll keeps its child at its own x, 0, less the
\* scroll position.
TimelineX == 0 - xposition

\* Piano_Timeline::y(): the Piano_Roll's y. The vertical scroll position,
\* which moves the timeline and its boxes together, is not carried.
TimelineY == MENU_BAR_HEIGHT

\* The Note_View values build_note_view pushes for a channel.
BuildNoteViews(channel_number) ==
    [length : 1..NOTE_FACTOR_MAX, pitch : 1..NUM_NOTES_PER_OCTAVE,
     octave : {channel_number}, speed : 1..NOTE_FACTOR_MAX]

\* Rests: set_channel accepts them, build_note_view never makes one.
RestViews ==
    [length : 1..NOTE_FACTOR_MAX, pitch : {REST}, octave : {0}, speed : 1..NOTE_FACTOR_MAX]

LengthSamples == {1, NOTE_FACTOR_MAX}

SpeedSamples == {1, NOTE_FACTOR_MAX - 1}

\* NoteSpec: notes of channel 1 with the lowest or the highest pitch, and rests.
NoteSamples ==
    {n \in BuildNoteViews(1) \cup RestViews :
        /\ n.length \in LengthSamples
        /\ n.speed \in SpeedSamples
        /\ n.pitch \in {REST, 1, NUM_NOTES_PER_OCTAVE}}

\* MapSpec: notes of every pitch and every octave of the keyboard, and rests,
\* all of the greatest length.
MapSamples ==
    {n \in UNION {BuildNoteViews(o) : o \in 1..NUM_OCTAVES} \cup RestViews :
        /\ n.length = NOTE_FACTOR_MAX
        /\ n.speed \in SpeedSamples}


\* SetChannelY with the rows counted from pitch 0.
SetChannelYFromZero(pitch, octave) ==
    TimelineY + (NUM_OCTAVES - octave) * OctaveHeight + (NUM_NOTES_PER_OCTAVE - 1 - pitch) * NoteRowHeight

\* tick_to_x_pos of Piano_Timeline::set_channel
SetChannelX(tick) == TimelineX + WHITE_KEY_WIDTH + tick * TICK_WIDTH

\* pitch_to_y_pos of Piano_Timeline::set_channel
SetChannelY(pitch, octave) ==
    TimelineY + (NUM_OCTAVES - octave) * OctaveHeight + (NUM_NOTES_PER_OCTAVE - pitch) * NoteRowHeight

\* tick_to_x_pos of Piano_Timeline::calc_sizes
CalcSizesX(tick) == TimelineX + WHITE_KEY_WIDTH + tick * TICK_WIDTH

\* pitch_to_y_pos of Piano_Timeline::calc_sizes
CalcSizesY(pitch, octave) ==
    TimelineY + (NUM_OCTAVES - octave) * OctaveHeight + (NUM_NOTES_PER_OCTAVE - pitch) * NoteRowHeight

\* new Note_Box(note, tick, X, Y, W, H) of set_channel
NewNoteBox(note, tick) ==
    [note |-> note,
     tick |-> tick,
     x |-> SetChannelX(tick),
     y |-> SetChannelY(note.pitch, note.octave),
     w |-> note.length * note.speed * TICK_WIDTH,
     h |-> NoteRowHeight]

\* note->resize(...) of calc_sizes' resize_notes
ResizedNoteBox(box) ==
    [box EXCEPT !.x = CalcSizesX(box.tick),
                !.y = CalcSizesY(box.note.pitch, box.note.octave),
                !.w = box.note.length * box.note.speed * TICK_WIDTH,
                !.h = NoteRowHeight]

\* The state on entry to set_channel's loop, during Piano_Roll's constructor.
NoteInit ==
    /\ MainInit
    /\ sc_pc = "loop"
    /\ sc_notes = <<>>
    /\ sc_tick = 0
    /\ sc_boxes = <<>>


\* SC_Note with the tick advanced only by the notes that get a box.
SC_NoteRestsStandStill(note) ==
    /\ sc_pc = "loop"
    /\ sc_notes' = Append(sc_notes, note)
    /\ sc_boxes' = IF note.pitch # REST THEN Append(sc_boxes, NewNoteBox(note, sc_tick)) ELSE sc_boxes
    /\ sc_tick' = IF note.pitch # REST THEN sc_tick + note.length * note.speed ELSE sc_tick
    /\ UNCHANGED <<it_vars, mw_vars, t_vars, ui_vars, sc_pc>>
    /\ UNCHANGED <<pr_tick, pr_following, pr_paused, pr_continuous, xposition, pr_w, timeline_w, last_note_tick>>

\* One pass of set_channel's loop, over the next note of the channel.
SC_Note(note) ==
    /\ sc_pc = "loop"
    /\ sc_notes' = Append(sc_notes, note)
    /\ sc_boxes' = IF note.pitch # REST THEN Append(sc_boxes, NewNoteBox(note, sc_tick)) ELSE sc_boxes
    /\ sc_tick' = sc_tick + note.length * note.speed
    /\ UNCHANGED <<it_vars, mw_vars, t_vars, ui_vars, sc_pc>>
    /\ UNCHANGED <<pr_tick, pr_following, pr_paused, pr_continuous, xposition, pr_w, timeline_w, last_note_tick>>

\* The loop ends with the channel's last note; set_channel moves the keys to
\* the end of the children and returns.
SC_Return ==
    /\ sc_pc = "loop"
    /\ sc_pc' = "returned"
    /\ UNCHANGED <<it_vars, mw_vars, t_vars, ui_vars, sc_notes, sc_tick, sc_boxes>>
    /\ UNCHANGED <<pr_tick, pr_following, pr_paused, pr_continuous, xposition, pr_w, timeline_w, last_note_tick>>

\* Piano_Timeline::calc_sizes
SC_CalcSizes ==
    /\ sc_pc = "returned"
    /\ sc_boxes' = [k \in DOMAIN sc_boxes |-> ResizedNoteBox(sc_boxes[k])]
    /\ UNCHANGED <<it_vars, mw_vars, t_vars, ui_vars, sc_pc, sc_notes, sc_tick>>
    /\ UNCHANGED <<pr_tick, pr_following, pr_paused, pr_continuous, xposition, pr_w, timeline_w, last_note_tick>>

NoteNext ==
    \/ \E n \in NoteSamples : Len(sc_notes) < MaxNotes /\ SC_Note(n)
    \/ SC_Return
    \/ SC_CalcSizes

NoteSpec == NoteInit /\ [][NoteNext]_vars

\* MapSpec: at most one note of the channel is not a rest.
MapNext ==
    \/ \E n \in MapSamples :
          /\ Len(sc_notes) < MaxNotes
          /\ n.pitch # REST => sc_boxes = <<>>
          /\ SC_Note(n)
    \/ SC_Return
    \/ SC_CalcSizes

MapSpec == NoteInit /\ [][MapNext]_vars

(* ------- SongSpec: handlers and timer passes as single steps ---------- *)

\* start_audio_thread, whole.
S_ThreadStarted ==
    /\ kill_set' = FALSE
    /\ joinable' = TRUE
    /\ n_threads' = n_threads + 1
    /\ t_pc' = "wait"
    /\ t_tick' = -1

\* stop_audio_thread, whole: signal and join if a thread is joinable.
S_ThreadStopped ==
    /\ kill_set' = (kill_set \/ joinable)
    /\ joinable' = FALSE
    /\ n_threads' = 0
    /\ t_pc' = "none"
    /\ UNCHANGED t_tick

\* Main_Window::toggle_playback, whole.
S_TogglePlayback ==
    /\ ui_pc = "idle"
    /\ IF stopped
       THEN ItStart /\ StartFollowing /\ S_ThreadStarted
       ELSE IF it_paused
            THEN ItStart /\ UnpauseFollowing /\ S_ThreadStarted
            ELSE ItPause /\ PauseFollowing /\ S_ThreadStopped
    /\ UNCHANGED <<mw_tick, sync_requested, mutex, awake_pending, ui_vars>>

\* Main_Window::stop_playback, whole.
S_StopPlayback ==
    /\ ui_pc = "idle"
    /\ S_ThreadStopped
    /\ IF ~stopped
       THEN ItStop /\ mw_tick' = -1 /\ StopFollowing
       ELSE UNCHANGED <<it_vars, mw_tick, pr_vars>>
    /\ UNCHANGED <<sync_requested, mutex, awake_pending, ui_vars>>

\* Main_Window::speed_slider_cb, whole, with the slider at s.
S_SpeedSlider(s) ==
    /\ ui_pc = "idle"
    /\ it_speed' = s
    /\ UNCHANGED <<it_playing, it_paused, it_current_tick>>
    /\ UNCHANGED <<mw_vars, t_vars, ui_vars, pr_vars>>

\* One pass of playback_thread's loop in which try_lock succeeds.
S_TimerPass ==
    /\ t_pc = "wait"
    /\ ~kill_set
    /\ mutex = "none"
    /\ IF it_playing
       THEN /\ ItPlay
            /\ LET t == PlayTick(it_current_tick, it_speed)
               IN  IF t_tick # t
                   THEN /\ t_tick' = t
                        /\ mw_tick' = t
                        /\ sync_requested' = TRUE
                        /\ awake_pending' = IF sync_requested THEN awake_pending ELSE awake_pending + 1
                   ELSE UNCHANGED <<t_tick, mw_tick, sync_requested, awake_pending>>
            /\ UNCHANGED <<t_pc, n_threads>>
       ELSE /\ mw_tick' = -1
            /\ sync_requested' = TRUE
            /\ awake_pending' = IF sync_requested THEN awake_pending ELSE awake_pending + 1
            /\ t_pc' = "done"
            /\ n_threads' = n_threads - 1
            /\ UNCHANGED <<it_vars, t_tick>>
    /\ UNCHANGED <<joinable, mutex, kill_set, ui_vars, pr_vars>>


\* S_SyncCb forwarding every tick that is not negative.
S_SyncCbForwardsZero ==
    /\ ui_pc = "idle"
    /\ awake_pending > 0
    /\ mutex = "none"
    /\ awake_pending' = awake_pending - 1
    /\ IF it_playing /\ mw_tick >= 0
       THEN HighlightTick(mw_tick) /\ UNCHANGED mw_tick
       ELSE IF stopped
            THEN mw_tick' = -1 /\ StopFollowing
            ELSE UNCHANGED <<mw_tick, pr_vars>>
    /\ sync_requested' = FALSE
    /\ UNCHANGED <<it_vars, joinable, mutex, kill_set, n_threads, t_vars, ui_vars>>

\* Main_Window::sync_cb, whole, run from the awake queue.
S_SyncCb ==
    /\ ui_pc = "idle"
    /\ awake_pending > 0
    /\ mutex = "none"
    /\ awake_pending' = awake_pending - 1
    /\ IF it_playing /\ mw_tick > 0
       THEN HighlightTick(mw_tick) /\ UNCHANGED mw_tick
       ELSE IF stopped
            THEN mw_tick' = -1 /\ StopFollowing
            ELSE UNCHANGED <<mw_tick, pr_vars>>
    /\ sync_requested' = FALSE
    /\ UNCHANGED <<it_vars, joinable, mutex, kill_set, n_threads, t_vars, ui_vars>>

\* SongSpec: the slider is only ever moved to its right end, and the timer
\* thread's try_lock succeeds only while the speed is SPEED_MAX, so that a lap
\* of the song takes SONG_LENGTH / SPEED_MAX passes.
SongNext ==
    \/ S_TogglePlayback
    \/ S_StopPlayback
    \/ S_SpeedSlider(SPEED_MAX)
    \/ it_speed = SPEED_MAX /\ S_TimerPass
    \/ S_SyncCb

SongSpec == Init /\ [][SongNext]_vars

(* ------------------- shared accesses of the two threads --------------- *)

SharedNames == {"playing", "paused", "speed", "current_tick", "mw_tick", "sync_requested"}

SharedValue(v) ==
    CASE v = "playing" -> it_playing
      [] v = "paused" -> it_paused
      [] v = "speed" -> it_speed
      [] v = "current_tick" -> it_current_tick
      [] v = "mw_tick" -> mw_tick
      [] v = "sync_requested" -> sync_requested

\* The shared variables the UI thread's next step reads or writes, by position:
\* speed_slider_cb's comparison, its write, the branches of toggle_playback and
\* stop_playback, update_active_controls, the body of sync_cb.
UIAccess(op, pc) ==
    CASE pc = "speed_read" -> {"speed"}
      [] pc = "speed_write" -> {"speed"}
      [] pc = "body" /\ op = "toggle" -> {"playing", "paused"}
      [] pc = "body" /\ op = "stop" -> {"playing", "paused", "current_tick", "mw_tick"}
      [] pc = "uac" -> {"playing", "paused"}
      [] pc = "sync_body" -> {"playing", "paused", "mw_tick", "sync_requested"}
      [] OTHER -> {}

\* The shared variables the timer thread's next step reads or writes, by position.
TimerAccess(pc) ==
    CASE pc = "cs_play" -> {"playing", "speed", "current_tick", "mw_tick", "sync_requested"}
      [] pc = "cs_awake" -> {"sync_requested"}
      [] pc = "cs_flag" -> {"sync_requested"}
      [] OTHER -> {}

(* ------------------------------- claims ------------------------------- *)

\* C1: at most one sync_cb wakeup is queued with Fl::awake and not yet run, in
\* every interleaving of the timer thread, sync_cb, Play/Pause, Stop and speed
\* changes.
C1_WakeupsCoalesced == awake_pending <= 1

\* A wakeup is queued and the timer thread, in a later iteration, is at the
\* test of the flag that makes it queue no second one.
C1_Witness == awake_pending = 1 /\ sync_requested /\ t_pc = "cs_awake"

UITeardownReturned == ui_pc \in {"body", "destroyed"} /\ ~joinable /\ n_threads = 0 /\ mutex = "none"

\* C2: whenever stop_audio_thread is at its lock with a joinable thread, it
\* goes on to return with the thread joined, no playback_thread running and
\* the mutex released, wherever the timer thread was at that moment.
C2_TeardownCompletes == (ui_pc = "stop_lock") ~> UITeardownReturned

\* join has returned inside stop_audio_thread: the signalled thread is gone
\* and the UI thread still holds the mutex.
C2_Witness == ui_pc = "stop_unlock" /\ kill_set /\ ~joinable /\ n_threads = 0 /\ mutex = "ui"

UIAtLock == ui_pc \in {"stop_lock", "speed_lock", "sync_lock"}

UIWaiting == (UIAtLock /\ mutex # "none") \/ (ui_pc = "stop_join" /\ t_pc # "done")

\* C3: the timer thread holds the mutex only between a successful try_lock
\* and the unlock of the same iteration; whenever the UI thread waits (for the
\* mutex, or in join) the timer thread can take a step; and a UI-side blocking
\* lock is eventually granted.
C3_NoDeadlock ==
    /\ [](mutex = "timer" <=> t_pc \in {"cs_play", "cs_awake", "cs_flag", "unlock"})
    /\ [](UIWaiting => ENABLED TimerStep)
    /\ UIAtLock ~> mutex = "ui"

\* The UI thread waits in join holding the mutex while the timer thread is at
\* its try_lock.
C3_Witness == ui_pc = "stop_join" /\ mutex = "ui" /\ t_pc = "try"

WrittenShared == {v \in SharedNames : SharedValue(v)' # SharedValue(v)}

\* C4: every step that writes the shared tick, flags, speed or _sync_requested
\* is taken by the thread that holds _audio_mutex, or by the UI thread while no
\* playback_thread is running; and the other thread is then not at an access of
\* a variable the step writes.
C4_SingleWriter ==
    [][WrittenShared # {} =>
          IF ui_pc' # ui_pc
          THEN (mutex = "ui" \/ n_threads = 0) /\ WrittenShared \cap TimerAccess(t_pc) = {}
          ELSE mutex = "timer" /\ WrittenShared \cap UIAccess(ui_op, ui_pc) = {}]_vars

\* The timer thread has published a tick under the mutex while the UI thread
\* is inside speed_slider_cb, waiting for the mutex to write the speed.
C4_Witness == t_pc = "cs_awake" /\ mw_tick > 0 /\ ui_pc = "speed_lock" /\ mutex = "timer"

\* C5: a step that leaves the module playing keeps the tick, or adds the speed
\* (1..10) to it, or sets it to 0 exactly when tick + speed >= 3072; a pause or
\* a resume keeps the tick.
C5_TickMonotoneWraps ==
    [][/\ it_speed \in 1..10
       /\ (it_playing /\ it_playing') =>
             \/ it_current_tick' = it_current_tick
             \/ it_current_tick + it_speed < 3072 /\ it_current_tick' = it_current_tick + it_speed
             \/ it_current_tick + it_speed >= 3072 /\ it_current_tick' = 0
       /\ (it_playing # it_playing' /\ (it_playing' \/ it_paused')) =>
             it_current_tick' = it_current_tick]_vars

\* The module is playing at the last tick of the song: the next play wraps.
C5_Witness == it_playing /\ it_current_tick = 3071 /\ it_speed = 10

\* C6: at most one of _playing and _paused is true, so exactly one of
\* playing(), paused(), stopped() holds.
C6_OneOfThree ==
    /\ ~(it_playing /\ it_paused)
    /\ Cardinality({i \in 1..3 : <<it_playing, it_paused, ~it_playing /\ ~it_paused>>[i]}) = 1

\* The module was paused after the timer thread had advanced it.
C6_Witness == it_paused /\ ~it_playing /\ it_current_tick > 0

\* C7: at most one playback_thread is running, and start_audio_thread is
\* reached only with the previous thread joined.
C7_OneTimerThread == n_threads <= 1 /\ (ui_pc = "spawn" => ~joinable /\ n_threads = 0)

\* A second thread runs after a pause and resume: its local tick is fresh
\* while the module's tick has advanced.
C7_Witness == n_threads = 1 /\ t_pc = "try" /\ t_tick = -1 /\ it_current_tick > 0 /\ it_playing

SyncQueuedOrExecuting == awake_pending >= 1 \/ ui_op = "sync"

\* C8: whenever _sync_requested is true a sync_cb wakeup is queued or
\* executing, and while the event loop runs the flag is eventually reset.
C8_SyncNeverStuck ==
    /\ [](sync_requested => SyncQueuedOrExecuting)
    /\ sync_requested ~> (~sync_requested \/ ui_pc = "destroyed")

\* A request is pending after the module was stopped and its thread joined.
C8_Witness == sync_requested /\ awake_pending = 1 /\ ~it_playing /\ ~it_paused /\ n_threads = 0

HighlightChangesTick == pr_tick' # pr_tick /\ pr_tick' > 0

\* C9 as claimed: in continuous mode while following, a tick update leaves the
\* cursor at the horizontal centre of the viewport, up to clamping.
C9_Recentres ==
    [][(HighlightChangesTick /\ pr_following /\ pr_continuous) =>
          LET x == ((pr_tick' \div 12) * 12) * 3
              max == timeline_w - (pr_w - 16)
              centred == x + 150 - pr_w \div 2
          IN  xposition' = IF centred < 0 THEN 0 ELSE IF centred > max THEN max ELSE centred]_vars

\* C9 as amended: in continuous mode while following, a tick update scrolls to
\* the cursor itself, so that the cursor is at the left edge of the timeline
\* (right after the keys), up to clamping at scroll_x_max().
C9_ScrollsToCursor ==
    [][(HighlightChangesTick /\ pr_following /\ pr_continuous) =>
          LET x == ((pr_tick' \div 12) * 12) * 3
              max == timeline_w - (pr_w - 16)
          IN  xposition' = IF x > max THEN max ELSE x]_vars

\* Following in continuous mode, the view has scrolled to a cursor past the
\* first screen.
C9_Witness ==
    /\ pr_following /\ pr_continuous
    /\ pr_tick = 1536
    /\ xposition = 4608

\* C10: in non-continuous mode a tick update leaves the scroll position alone
\* whenever xposition() <= x <= xposition() + w() - 2 * WHITE_KEY_WIDTH for the
\* step-snapped cursor x.
C10_ScrollsOnlyOutsideMargin ==
    [][(HighlightChangesTick /\ ~pr_continuous) =>
          LET x == ((pr_tick' \div 12) * 12) * 3
          IN  (xposition <= x /\ x <= xposition + pr_w - 2 * 150) => xposition' = xposition]_vars

\* Following in non-continuous mode, the cursor has moved inside the margin of
\* a view that stayed where it was.
C10_Witness ==
    /\ pr_following /\ ~pr_continuous
    /\ pr_tick = 143
    /\ xposition = 0
    /\ pr_w = 800

\* C11: after every tick update while following, continuous or not, the
\* cursor is visible: with x the step-snapped cursor position of the new
\* tick, 0 <= x - xposition() and WHITE_KEY_WIDTH + x - xposition() <= w() -
\* scrollbar width, for every window width size_range allows and every prior
\* scroll position, the jump back after the tick wraps included.
C11_CursorVisible ==
    [][(HighlightChangesTick /\ pr_following) =>
        LET x == (CDiv(pr_tick', 12) * 12) * 3
        IN  /\ 0 <= x - xposition'
            /\ 150 + x - xposition' <= pr_w' - 16]_vars

\* A non-continuous follow on the narrowest window has reached the song's
\* last tick: the view is clamped at scroll_x_max() and the cursor stands to
\* the right of its left edge.
C11_Witness ==
    /\ pr_following
    /\ ~pr_continuous
    /\ pr_w = 466
    /\ pr_tick = 3071
    /\ xposition = 3 * last_note_tick
    /\ xposition < 9180

\* C12: after any sequence of tick updates, window resizes and horizontal
\* scrollbar callbacks, 0 <= xposition() <= scroll_x_max(), and scroll_x_max()
\* is never negative.
C12_ScrollClamped ==
    /\ 0 <= xposition
    /\ xposition <= timeline_w - (pr_w - 16)
    /\ timeline_w - (pr_w - 16) >= 0

\* The view of a resized window sits at scroll_x_max() with the cursor past
\* the last note.
C12_Witness ==
    /\ pr_w = 1600
    /\ pr_tick = 3071
    /\ xposition = timeline_w - (pr_w - 16)
    /\ xposition > 0

\* The sum of length * speed over the first n notes of a channel.
RECURSIVE TicksOfFirst(_, _)
TicksOfFirst(notes, n) ==
    IF n = 0 THEN 0 ELSE TicksOfFirst(notes, n - 1) + notes[n].length * notes[n].speed

\* C13: set_channel gives the box of the i-th note the tick equal to the sum
\* of length * speed of all earlier notes of the channel (a rest advances the
\* offset and gets no box), so the boxes of a channel are in strictly
\* increasing tick order and never overlap: box.tick + length * speed <= the
\* next box's tick.
C13_BoxesAtCumulativeTicks ==
    LET boxed == {i \in DOMAIN sc_notes : sc_notes[i].pitch # 0}
        nth(k) == CHOOSE i \in boxed : Cardinality({j \in boxed : j <= i}) = k
    IN  /\ Len(sc_boxes) = Cardinality(boxed)
        /\ \A k \in DOMAIN sc_boxes :
              /\ sc_boxes[k].note = sc_notes[nth(k)]
              /\ sc_boxes[k].tick = TicksOfFirst(sc_notes, nth(k) - 1)
        /\ \A k \in 1..(Len(sc_boxes) - 1) :
              /\ sc_boxes[k].tick < sc_boxes[k + 1].tick
              /\ sc_boxes[k].tick + sc_boxes[k].note.length * sc_boxes[k].note.speed
                    <= sc_boxes[k + 1].tick

\* set_channel has returned from a channel of a note, a rest and a note: the
\* second box starts later than the first one ends.
C13_Witness ==
    /\ sc_pc = "returned"
    /\ Len(sc_notes) = 3
    /\ sc_notes[2].pitch = 0
    /\ Len(sc_boxes) = 2
    /\ sc_boxes[1].tick = 0
    /\ sc_boxes[2].tick = 12 + 4

\* C14: the tick/pixel mapping has no failing input: a box's x less the
\* timeline's x is WHITE_KEY_WIDTH + tick * tick_width, strictly increasing in
\* the tick; its y less the timeline's y is (NUM_OCTAVES - octave) *
\* octave_height + (NUM_NOTES_PER_OCTAVE - pitch) * note_row_height, a row of
\* its own for every pitch 1..12 and octave 1..8, inside [0, NUM_OCTAVES *
\* octave_height - note_row_height]; set_channel and calc_sizes compute the
\* same position for the same note.
C14_MappingTotal ==
    \A k \in DOMAIN sc_boxes :
        LET b == sc_boxes[k]
            p == b.note.pitch
            o == b.note.octave
        IN  /\ b.x - (0 - xposition) = 150 + b.tick * 3
            /\ SetChannelX(b.tick) < SetChannelX(b.tick + 1)
            /\ b.y - 21 = (8 - o) * (24 * 7) + (12 - p) * ((24 * 7) \div 12)
            /\ 0 <= b.y - 21
            /\ b.y - 21 <= 8 * (24 * 7) - ((24 * 7) \div 12)
            /\ \A p2 \in 1..12, o2 \in 1..8 :
                  <<p2, o2>> # <<p, o>> => SetChannelY(p2, o2) # b.y
            /\ CalcSizesX(b.tick) = b.x
            /\ CalcSizesY(p, o) = b.y

\* set_channel has returned from two rests and a C of octave 1: its box is in
\* the lowest row of the timeline, 16 ticks in.
C14_Witness ==
    /\ sc_pc = "returned"
    /\ Len(sc_boxes) = 1
    /\ sc_boxes[1].tick = 16
    /\ sc_boxes[1].note.pitch = 1
    /\ sc_boxes[1].note.octave = 1
    /\ sc_boxes[1].y = 21 + 1330

\* C15: whenever toggle_playback or stop_playback has returned, a
\* playback_thread is running iff IT_Module::playing(); so the timer thread
\* never finds the module not playing, and the branch of playback_thread
\* that handles it is never taken.
C15_ThreadIffPlaying ==
    /\ ui_op \notin {"toggle", "stop", "destroy"} =>
          /\ (n_threads = 1) <=> it_playing
          /\ (t_pc \notin {"none", "done"}) <=> it_playing
    /\ t_pc = "cs_play" => it_playing

\* Play/Pause has returned from pausing a song in progress: no thread runs.
C15_Witness ==
    /\ ui_pc = "idle"
    /\ it_paused
    /\ it_current_tick > 0
    /\ n_threads = 0
    /\ t_pc = "none"

\* C16: set_value is called at most once on each std::promise, and on the
\* promise whose future the running thread holds; start_audio_thread never
\* assigns a new std::thread over a joinable one; over every sequence of
\* Play/Pause, Stop and the window's destruction.
C16_PromiseAndThreadUsedOnce ==
    /\ ui_pc # "terminated"
    /\ ui_pc = "stop_signal" => joinable /\ ~kill_set
    /\ ui_pc = "spawn" => ~joinable

\* The window is destroyed during playback: the promise of the running
\* thread has been set, the join is awaited.
C16_Witness ==
    /\ ui_op = "destroy"
    /\ ui_pc = "stop_join"
    /\ kill_set
    /\ joinable
    /\ it_current_tick > 0

\* C17: after every UI-thread operation has returned, Piano_Roll::following()
\* equals IT_Module::playing() and Piano_Roll::paused() equals
\* IT_Module::paused(); and whenever the module is stopped,
\* Piano_Roll::tick() and Main_Window::_tick are -1 and
\* IT_Module::current_tick() is 0.
C17_ViewMirrorsModule ==
    /\ ui_pc = "idle" => pr_following = it_playing /\ pr_paused = it_paused
    /\ stopped => pr_tick = -1 /\ mw_tick = -1 /\ it_current_tick = 0

\* Stop has returned from a song that had shown a tick, a wakeup still queued.
C17_Witness ==
    /\ ui_pc = "idle"
    /\ stopped
    /\ awake_pending = 1
    /\ ~pr_following
    /\ pr_tick = -1
    /\ mw_tick = -1

\* C18: sync_cb forwards the shared tick to highlight_tick only when it is
\* greater than 0, so in every reachable state Piano_Roll::tick() is -1 or in
\* 1..3071; when the module tick wraps to 0 the view keeps its previous tick
\* and scroll position until the next positive tick arrives.
C18_TickZeroNeverShown ==
    /\ [](pr_tick = -1 \/ pr_tick \in 1..3071)
    /\ [][(it_playing /\ mw_tick = 0 /\ it_playing') =>
             (pr_tick' = pr_tick /\ xposition' = xposition)]_vars

\* The tick has wrapped to 0 and sync_cb has run on it: the view still shows
\* the last tick before the wrap, at scroll_x_max().
C18_Witness ==
    /\ it_playing
    /\ it_current_tick = 0
    /\ mw_tick = 0
    /\ ~sync_requested
    /\ awake_pending = 0
    /\ pr_tick = 3070
    /\ xposition = 3 * last_note_tick

====
